---- MODULE Spec2Model ----
(***************************************************************************)
(* Model of pushevent, thread variant (src/server.rs, src/client.rs):      *)
(* a registry  clients : HashMap<String, Vec<Sender>>  behind a Mutex,     *)
(* mutated by the websocket handler callbacks on_request / on_close, and a *)
(* dispatch thread that drains an mpsc channel of Events and broadcasts    *)
(* each one to the senders registered under the event's resource.         *)
(***************************************************************************)
EXTENDS Integers, Sequences, FiniteSets, TLC

\* ---------------------------------------------------------------- bounds
NumHandles == 2      \* distinct connection tokens
MaxEntries == 2      \* total number of Sender clones stored in the registry
MaxEvents  == 2      \* number of tx.send calls made by the producers

\* ------------------------------------------------------------ value sets
\* ws::Sender values; two Senders are the same connection iff their token()
\* is equal, so a Sender is modelled by its token.
Handles   == 1..NumHandles
\* resource paths, the String keys of the clients map
Resources == {"/topic", "/other"}
\* what the producers submit: a resource and the payload serialized for it
Submissions == {<<"/topic", "hello">>, <<"/other", "x">>}

\* value of cur while the dispatch thread holds no event
NoEvent == [res |-> "", inner |-> "", id |-> 0]

\* An Event is a record [res, inner, id]: the resource it targets, the
\* serialized payload, and id, a history field (the position of the event
\* among the successful enqueues) that the program never reads.

\* Event::get_res, the resource the event targets
get_res(e) == e.res

\* Event::build, the serialized payload
build(e) == e.inner

\* lib.rs: the peers of the async variant are keyed by their SocketAddr
Addrs == 1..NumHandles

\* the path of the upgrade request the peer at an address makes;
\* accept_async does not look at it
RequestedPath(a) == IF a % 2 = 1 THEN "/topic" ELSE "/other"

\* lib.rs: Event::new keeps the serialized payload and nothing else
Event_new(inner) == [inner |-> inner]

\* tungstenite Message::text: a text frame that carries the string
Message_text(s) == [text |-> s]

\* ------------------------------------------------------ pure operations
RECURSIVE SumLen(_, _)
SumLen(cl, ks) ==
    IF ks = {} THEN 0
    ELSE LET k == CHOOSE x \in ks : TRUE
         IN  Len(cl[k]) + SumLen(cl, ks \ {k})

\* number of Senders stored in the whole map
TotalEntries(cl) == SumLen(cl, DOMAIN cl)

\* the set of handles occurring in a Vec<Sender>
Elems(vec) == {vec[i] : i \in 1..Len(vec)}

\* number of occurrences of h in a Vec<Sender>
Count(vec, h) == Cardinality({i \in 1..Len(vec) : vec[i] = h})

\* ServerInner::new
ServerInner_new == [r \in {} |-> <<>>]

\* add_client inserting a fresh singleton Vec even when the key exists
add_client_overwrite(cl, res, sender) ==
    [r \in (DOMAIN cl) \cup {res} |->
          IF r = res THEN <<sender>> ELSE cl[r]]

\* ServerInner::add_client
add_client(cl, res, sender) ==
    IF res \in DOMAIN cl
    THEN [cl EXCEPT ![res] = Append(@, sender)]
    ELSE [r \in (DOMAIN cl) \cup {res} |->
              IF r = res THEN <<sender>> ELSE cl[r]]

\* remove_client evicting a single entry per call (the first entry of each
\* Vec that the closure rejects) where retain evicts all of them
remove_client_one(cl, sender) ==
    [r \in DOMAIN cl |->
        LET rej == {i \in 1..Len(cl[r]) : cl[r][i] # sender}
        IN  IF rej = {} THEN cl[r]
            ELSE LET k == CHOOSE i \in rej : \A j \in rej : i <= j
                 IN  SubSeq(cl[r], 1, k - 1) \o SubSeq(cl[r], k + 1, Len(cl[r]))]

\* ServerInner::remove_client: the retain closure keeps x iff
\* x.token() == sender.token()
remove_client(cl, sender) ==
    [r \in DOMAIN cl |-> SelectSeq(cl[r], LAMBDA x : x = sender)]

RECURSIVE AllSenders(_, _)
AllSenders(cl, ks) ==
    IF ks = {} THEN <<>>
    ELSE LET k == CHOOSE x \in ks : TRUE
         IN  cl[k] \o AllSenders(cl, ks \ {k})

\* broadcast iterating over the Senders of every key, whatever res is
broadcast_targets_every(cl, res) == AllSenders(cl, DOMAIN cl)

\* broadcast falling back to the Senders of every key when get returns None
broadcast_targets_fallback(cl, res) ==
    IF res \in DOMAIN cl THEN cl[res] ELSE AllSenders(cl, DOMAIN cl)

\* broadcast visiting every distinct Sender of the Vec once
broadcast_targets_dedup(cl, res) ==
    IF res \in DOMAIN cl
    THEN SelectSeq([i \in 1..Len(cl[res]) |->
                       IF \E j \in 1..(i - 1) : cl[res][j] = cl[res][i]
                       THEN 0 ELSE cl[res][i]],
                   LAMBDA x : x # 0)
    ELSE <<>>

\* self.clients.get(res) in ServerInner::broadcast: the Vec to iterate, and
\* the empty iteration when get returns None
broadcast_targets(cl, res) ==
    IF res \in DOMAIN cl THEN cl[res] ELSE <<>>

\* ----------------------------------------------------------------- state
VARIABLES
    clients,    \* ServerInner.clients
    poisoned,   \* the Mutex of ServerRef is poisoned
    locked,     \* the dispatch thread holds the Mutex
    chan,       \* events queued in the mpsc channel
    rxAlive,    \* the Receiver has not been dropped
    dpc,        \* dispatch thread: "recv", "lock", "send", "panicked", "done"
    cur,        \* the event of the current loop iteration
    idx,        \* position of the for loop of broadcast in the Vec
    wsAlive,    \* the websocket thread has not panicked
    failing,    \* handles whose Sender::send returns Err
    nsub,       \* number of tx.send calls so far
    lastResult, \* result of the latest tx.send: "none", "Ok", "Err"
    enq,        \* history: events successfully enqueued, in order
    disp,       \* history: events handed to broadcast, in order
    sent,       \* history: the successful y.send calls, in order, of the
                \* call of broadcast in progress (kept when it panics)
    live,       \* history of RegistrySpec: per resource, the handles added
                \* and not removed since
    lastOp,     \* history of RegistrySpec: the latest registry call; op is
                \* "add", "remove", or "remove2" for a remove_client(h) that
                \* directly follows a remove_client(h)
    prodTx,     \* the producers still hold their clones of Server.tx
    serverTx,   \* the Server value (and the tx it owns) has not been dropped
    jpc,        \* Server::join_threads: "idle", "join_ws", "panicked"
    conn        \* history of LifecycleSpec: per token, how far the connection
                \* that holds it has got: "none", "connecting" (Client::new
                \* ran), "requested" (on_request ran), "open" (on_open ran),
                \* "failed" (the handshake failed), "closed" (on_close ran)
VARIABLES
    peer_map,   \* lib.rs: the addresses whose Tx is in the PeerMap
    task,       \* lib.rs: per address, the position of handle_connection:
                \* "none", "handshake", "serving", "finished", "panicked"
    link,       \* per address, the connection as the server's stream sees
                \* it: "none", "up", "eof" (the peer has disconnected),
                \* "err" (the stream and the sink return Err)
    inb,        \* per address, the future broadcast_incoming of
                \* handle_connection: "pending" or "done"
    outb,       \* per address, the future receive_from_others
    read,       \* history: per address, the closure of try_for_each has
                \* been called with a message of the peer since the
                \* connection is up
    wrote,      \* history: per address, forward has written a message of
                \* the connection's channel to the sink since the
                \* connection is up
    prx,        \* per address, the unbounded channel of the connection:
                \* the messages sent on its Tx and not yet forwarded
    achan,      \* lib.rs: the unbounded channel of Events returned by build
    ansub       \* number of events sent on the EventTx so far

shutVars == <<prodTx, serverTx, jpc>>
lifeVars == <<conn>>
asyncVars == <<peer_map, task, link, inb, outb, read, wrote, prx, achan,
               ansub>>
extVars  == <<shutVars, lifeVars, asyncVars>>

vars == <<clients, poisoned, locked, chan, rxAlive, dpc, cur, idx, wsAlive,
          failing, nsub, lastResult, enq, disp, sent, live, lastOp, extVars>>

regVars  == <<clients, live, lastOp>>
dispVars == <<dpc, cur, idx, disp, sent>>
chanVars == <<chan, nsub, lastResult, enq>>

NoOp == [op |-> "none", h |-> 0]

Init ==
    /\ clients = ServerInner_new
    /\ poisoned = FALSE
    /\ locked = FALSE
    /\ chan = <<>>
    /\ rxAlive = TRUE
    /\ dpc = "recv"
    /\ cur = NoEvent
    /\ idx = 0
    /\ wsAlive = TRUE
    /\ failing = {}
    /\ nsub = 0
    /\ lastResult = "none"
    /\ enq = <<>>
    /\ disp = <<>>
    /\ sent = <<>>
    /\ live = [r \in Resources |-> {}]
    /\ lastOp = NoOp
    /\ prodTx = TRUE
    /\ serverTx = TRUE
    /\ jpc = "idle"
    /\ conn = [h \in Handles |-> "none"]
    /\ peer_map = {}
    /\ task = [a \in Addrs |-> "none"]
    /\ link = [a \in Addrs |-> "none"]
    /\ inb = [a \in Addrs |-> "pending"]
    /\ outb = [a \in Addrs |-> "pending"]
    /\ read = [a \in Addrs |-> FALSE]
    /\ wrote = [a \in Addrs |-> FALSE]
    /\ prx = [a \in Addrs |-> <<>>]
    /\ achan = <<>>
    /\ ansub = 0

\* ------------------------------------------------- websocket thread side
\* Client::on_request: lock().unwrap(), then add_client(req.resource(), sender)
on_request(h, res) ==
    /\ wsAlive
    /\ ~locked
    /\ ~poisoned
    /\ TotalEntries(clients) < MaxEntries
    /\ clients' = add_client(clients, res, h)
    /\ UNCHANGED <<poisoned, locked, rxAlive, wsAlive, failing, live, lastOp>>
    /\ UNCHANGED <<dispVars, chanVars>>
    /\ UNCHANGED extVars

\* Client::on_close: lock().unwrap(), then remove_client(sender)
on_close(h) ==
    /\ wsAlive
    /\ ~locked
    /\ ~poisoned
    /\ clients' = remove_client(clients, h)
    /\ UNCHANGED <<poisoned, locked, rxAlive, wsAlive, failing, live, lastOp>>
    /\ UNCHANGED <<dispVars, chanVars>>
    /\ UNCHANGED extVars

\* lock().unwrap() in on_request / on_close on a poisoned Mutex panics: the
\* handler never reaches the registry and the websocket thread unwinds
ws_lock_poisoned ==
    /\ wsAlive
    /\ ~locked
    /\ poisoned
    /\ wsAlive' = FALSE
    /\ UNCHANGED <<poisoned, locked, rxAlive, failing>>
    /\ UNCHANGED <<regVars, dispVars, chanVars>>
    /\ UNCHANGED extVars

\* environment: the connection behind h goes away, from now on every
\* Sender::send on h returns Err
send_starts_failing(h) ==
    /\ h \notin failing
    /\ failing' = failing \cup {h}
    /\ UNCHANGED <<poisoned, locked, rxAlive, wsAlive>>
    /\ UNCHANGED <<regVars, dispVars, chanVars>>
    /\ UNCHANGED extVars

\* ---------------------------------------------------------- producer side
\* tx.send(event) on a clone of Server.tx (get_tx): Ok while the Receiver
\* lives, Err(SendError) once it was dropped
tx_send(res, inner) ==
    /\ prodTx
    /\ nsub < MaxEvents
    /\ nsub' = nsub + 1
    /\ IF rxAlive
       THEN LET e == [res |-> res, inner |-> inner, id |-> Len(enq) + 1]
            IN  /\ chan' = Append(chan, e)
                /\ enq' = Append(enq, e)
                /\ lastResult' = "Ok"
       ELSE /\ lastResult' = "Err"
            /\ UNCHANGED <<chan, enq>>
    /\ UNCHANGED <<poisoned, locked, rxAlive, wsAlive, failing>>
    /\ UNCHANGED <<regVars, dispVars>>
    /\ UNCHANGED extVars

\* ---------------------------------------------------------- dispatch side
\* a receive that takes the newest queued event instead of the oldest
recv_newest(q) == <<q[Len(q)], SubSeq(q, 1, Len(q) - 1)>>

\* rx.iter().next() on a non-empty queue: the event taken and what stays
\* queued
recv(q) == <<Head(q), Tail(q)>>

\* for event in rx.iter(): take the next event of the channel
dispatch_recv ==
    /\ dpc = "recv"
    /\ chan # <<>>
    /\ cur' = recv(chan)[1]
    /\ chan' = recv(chan)[2]
    /\ dpc' = "lock"
    /\ UNCHANGED <<poisoned, locked, rxAlive, wsAlive, failing>>
    /\ UNCHANGED <<regVars, idx, disp, sent, nsub, lastResult, enq>>
    /\ UNCHANGED extVars

\* inner_clone.lock().unwrap().borrow_mut().broadcast(&event.get_res(), ..):
\* the guard is taken and broadcast is entered (only this thread can poison
\* the Mutex, and it does not survive doing so)
dispatch_lock ==
    /\ dpc = "lock"
    /\ ~locked
    /\ ~poisoned
    /\ locked' = TRUE
    /\ idx' = 1
    /\ disp' = Append(disp, cur)
    /\ dpc' = "send"
    /\ UNCHANGED <<poisoned, rxAlive, wsAlive, failing>>
    /\ UNCHANGED <<regVars, cur, sent, chanVars>>
    /\ UNCHANGED extVars

\* one iteration of  for y in x { y.send(msg.clone()).unwrap() }  with Ok
broadcast_send_ok ==
    /\ dpc = "send"
    /\ idx <= Len(broadcast_targets(clients, get_res(cur)))
    /\ LET y == broadcast_targets(clients, get_res(cur))[idx]
       IN  /\ y \notin failing
           /\ sent' = Append(sent, [h |-> y, msg |-> build(cur), id |-> cur.id])
    /\ idx' = idx + 1
    /\ UNCHANGED <<poisoned, locked, rxAlive, wsAlive, failing>>
    /\ UNCHANGED <<regVars, dpc, cur, disp, chanVars>>
    /\ UNCHANGED extVars

\* one iteration whose send returns Err: unwrap() panics, the thread unwinds,
\* dropping the MutexGuard (which poisons the Mutex) and the Receiver with
\* whatever is still queued
broadcast_send_err ==
    /\ dpc = "send"
    /\ idx <= Len(broadcast_targets(clients, get_res(cur)))
    /\ broadcast_targets(clients, get_res(cur))[idx] \in failing
    /\ dpc' = "panicked"
    /\ locked' = FALSE
    /\ poisoned' = TRUE
    /\ rxAlive' = FALSE
    /\ chan' = <<>>
    /\ UNCHANGED <<wsAlive, failing>>
    /\ UNCHANGED <<regVars, cur, idx, disp, sent, nsub, lastResult, enq>>
    /\ UNCHANGED extVars

\* broadcast returning before the for loop has visited the whole Vec
broadcast_return_early ==
    /\ dpc = "send"
    /\ locked' = FALSE
    /\ dpc' = "recv"
    /\ cur' = NoEvent
    /\ idx' = 0
    /\ sent' = <<>>
    /\ UNCHANGED <<poisoned, rxAlive, wsAlive, failing>>
    /\ UNCHANGED <<regVars, disp, chanVars>>
    /\ UNCHANGED extVars

\* broadcast returns (end of the Vec, or get(res) was None); the guard is
\* dropped at the end of the statement and the loop goes back to rx.iter()
broadcast_return ==
    /\ dpc = "send"
    /\ idx > Len(broadcast_targets(clients, get_res(cur)))
    /\ locked' = FALSE
    /\ dpc' = "recv"
    /\ cur' = NoEvent
    /\ idx' = 0
    /\ sent' = <<>>
    /\ UNCHANGED <<poisoned, rxAlive, wsAlive, failing>>
    /\ UNCHANGED <<regVars, disp, chanVars>>
    /\ UNCHANGED extVars

Next ==
    \/ \E h \in Handles, res \in Resources : on_request(h, res)
    \/ \E h \in Handles : on_close(h)
    \/ ws_lock_poisoned
    \/ \E h \in Handles : send_starts_failing(h)
    \/ \E sub \in Submissions : tx_send(sub[1], sub[2])
    \/ dispatch_recv
    \/ dispatch_lock
    \/ broadcast_send_ok
    \/ broadcast_send_err
    \/ broadcast_return

Spec == Init /\ [][Next]_vars

\* ---------------------------------------------------------------- shutdown
\* every producer drops the Sender it got from Server::get_tx
drop_producer_senders ==
    /\ prodTx
    /\ prodTx' = FALSE
    /\ UNCHANGED <<serverTx, jpc>>
    /\ UNCHANGED <<lifeVars, asyncVars>>
    /\ UNCHANGED <<poisoned, locked, rxAlive, wsAlive, failing>>
    /\ UNCHANGED <<regVars, dispVars, chanVars>>

\* the Server value goes out of scope without join_threads running: the tx
\* field is dropped, the JoinHandles are dropped and the threads run detached
drop_server ==
    /\ serverTx
    /\ jpc = "idle"
    /\ serverTx' = FALSE
    /\ UNCHANGED <<prodTx, jpc>>
    /\ UNCHANGED <<lifeVars, asyncVars>>
    /\ UNCHANGED <<poisoned, locked, rxAlive, wsAlive, failing>>
    /\ UNCHANGED <<regVars, dispVars, chanVars>>

\* rx.iter() returns None: the queue is empty and every Sender of the channel
\* has been dropped; the for loop and the dispatch thread end
dispatch_end ==
    /\ dpc = "recv"
    /\ chan = <<>>
    /\ ~prodTx
    /\ ~serverTx
    /\ dpc' = "done"
    /\ rxAlive' = FALSE
    /\ UNCHANGED <<poisoned, locked, wsAlive, failing>>
    /\ UNCHANGED <<regVars, cur, idx, disp, sent, chanVars>>
    /\ UNCHANGED extVars

\* Server::join_threads is called: the drain yields the websocket thread
\* first and thread.join() waits for it
join_threads_call ==
    /\ jpc = "idle"
    /\ serverTx
    /\ jpc' = "join_ws"
    /\ UNCHANGED <<prodTx, serverTx>>
    /\ UNCHANGED <<lifeVars, asyncVars>>
    /\ UNCHANGED <<poisoned, locked, rxAlive, wsAlive, failing>>
    /\ UNCHANGED <<regVars, dispVars, chanVars>>

\* thread.join() on the websocket thread returns Err because that thread
\* panicked, and unwrap() panics in join_threads. (listen() is never shut
\* down by this code, so the websocket thread does not end in another way
\* and join() never returns Ok.)
join_threads_unwrap_panics ==
    /\ jpc = "join_ws"
    /\ ~wsAlive
    /\ jpc' = "panicked"
    /\ UNCHANGED <<prodTx, serverTx>>
    /\ UNCHANGED <<lifeVars, asyncVars>>
    /\ UNCHANGED <<poisoned, locked, rxAlive, wsAlive, failing>>
    /\ UNCHANGED <<regVars, dispVars, chanVars>>

ShutdownNext ==
    \/ Next
    \/ drop_producer_senders
    \/ drop_server
    \/ dispatch_end
    \/ join_threads_call
    \/ join_threads_unwrap_panics

ShutdownSpec == Init /\ [][ShutdownNext]_vars

\* the threads keep running when they can take a step
FairShutdownSpec ==
    /\ ShutdownSpec
    /\ WF_vars(dispatch_recv)
    /\ WF_vars(dispatch_lock)
    /\ WF_vars(broadcast_send_ok)
    /\ WF_vars(broadcast_send_err)
    /\ WF_vars(broadcast_return)
    /\ WF_vars(dispatch_end)
    /\ WF_vars(ws_lock_poisoned)
    /\ WF_vars(join_threads_unwrap_panics)

\* ------------------------------------------------- connection lifecycle
\* The callbacks of one connection in the order ws-rs makes them: the
\* factory closure of listen (Client::new), on_request, then on_open when the
\* handshake completes, and on_close when the connection ends. A token is
\* handed to a new connection once the connection that held it is gone.
ws_accept(h) ==
    /\ wsAlive
    /\ conn[h] \in {"none", "failed", "closed"}
    /\ conn' = [conn EXCEPT ![h] = "connecting"]
    /\ UNCHANGED <<shutVars, asyncVars>>
    /\ UNCHANGED <<poisoned, locked, rxAlive, wsAlive, failing>>
    /\ UNCHANGED <<regVars, dispVars, chanVars>>

\* Client::on_request of a connecting client: the Sender is registered
\* before the response is built and before the handshake completes
handshake_request(h, res) ==
    /\ wsAlive
    /\ conn[h] = "connecting"
    /\ ~locked
    /\ ~poisoned
    /\ TotalEntries(clients) < MaxEntries
    /\ clients' = add_client(clients, res, h)
    /\ conn' = [conn EXCEPT ![h] = "requested"]
    /\ UNCHANGED <<shutVars, asyncVars>>
    /\ UNCHANGED <<poisoned, locked, rxAlive, wsAlive, failing, live, lastOp>>
    /\ UNCHANGED <<dispVars, chanVars>>

\* Client::on_open: the handshake completed; the handler does nothing
handshake_done(h) ==
    /\ wsAlive
    /\ conn[h] = "requested"
    /\ conn' = [conn EXCEPT ![h] = "open"]
    /\ UNCHANGED <<shutVars, asyncVars>>
    /\ UNCHANGED <<poisoned, locked, rxAlive, wsAlive, failing>>
    /\ UNCHANGED <<regVars, dispVars, chanVars>>

\* the handshake does not complete: Response::from_request(req)? returns
\* the error of a malformed request after add_client has run, or the peer
\* goes away before the response is written; on_open is never called
handshake_fails(h) ==
    /\ wsAlive
    /\ conn[h] = "requested"
    /\ conn' = [conn EXCEPT ![h] = "failed"]
    /\ UNCHANGED <<shutVars, asyncVars>>
    /\ UNCHANGED <<poisoned, locked, rxAlive, wsAlive, failing>>
    /\ UNCHANGED <<regVars, dispVars, chanVars>>

\* Client::on_close of an open connection
connection_close(h) ==
    /\ wsAlive
    /\ conn[h] = "open"
    /\ ~locked
    /\ ~poisoned
    /\ clients' = remove_client(clients, h)
    /\ conn' = [conn EXCEPT ![h] = "closed"]
    /\ UNCHANGED <<shutVars, asyncVars>>
    /\ UNCHANGED <<poisoned, locked, rxAlive, wsAlive, failing, live, lastOp>>
    /\ UNCHANGED <<dispVars, chanVars>>

LifecycleNext ==
    \/ \E h \in Handles : ws_accept(h)
    \/ \E h \in Handles, res \in Resources : handshake_request(h, res)
    \/ \E h \in Handles : handshake_done(h)
    \/ \E h \in Handles : handshake_fails(h)
    \/ \E h \in Handles : connection_close(h)
    \/ ws_lock_poisoned
    \/ \E h \in Handles : send_starts_failing(h)
    \/ \E sub \in Submissions : tx_send(sub[1], sub[2])
    \/ dispatch_recv
    \/ dispatch_lock
    \/ broadcast_send_ok
    \/ broadcast_send_err
    \/ broadcast_return

LifecycleSpec == Init /\ [][LifecycleNext]_vars

\* ------------------------------------------------------- async variant
\* lib.rs: build() spawns the accept loop and the task broadcast_incoming;
\* every accepted stream gets a task that runs handle_connection.
threadVars == <<clients, poisoned, locked, chan, rxAlive, dpc, cur, idx,
                wsAlive, failing, nsub, lastResult, enq, disp, sent, live,
                lastOp>>

\* listener.accept() returns a stream and handle_connection is spawned
listener_accept(a) ==
    /\ task[a] = "none"
    /\ task' = [task EXCEPT ![a] = "handshake"]
    /\ link' = [link EXCEPT ![a] = "up"]
    /\ UNCHANGED <<peer_map, inb, outb, read, wrote, prx, achan, ansub>>
    /\ UNCHANGED <<threadVars, shutVars, lifeVars>>

\* accept_async succeeds: the Tx of a new unbounded channel is inserted
\* under the address and the two futures are created
accept_async_ok(a) ==
    /\ task[a] = "handshake"
    /\ peer_map' = peer_map \cup {a}
    /\ prx' = [prx EXCEPT ![a] = <<>>]
    /\ task' = [task EXCEPT ![a] = "serving"]
    /\ UNCHANGED <<link, inb, outb, read, wrote, achan, ansub>>
    /\ UNCHANGED <<threadVars, shutVars, lifeVars>>

\* accept_async returns Err: expect panics the task before the insert
accept_async_err(a) ==
    /\ task[a] = "handshake"
    /\ task' = [task EXCEPT ![a] = "panicked"]
    /\ link' = [link EXCEPT ![a] = "none"]
    /\ UNCHANGED <<peer_map, inb, outb, read, wrote, prx, achan, ansub>>
    /\ UNCHANGED <<threadVars, shutVars, lifeVars>>

\* the peer closes the connection: incoming ends, the sink refuses writes
peer_disconnects(a) ==
    /\ task[a] = "serving"
    /\ link[a] = "up"
    /\ link' = [link EXCEPT ![a] = "eof"]
    /\ read' = [read EXCEPT ![a] = FALSE]
    /\ wrote' = [wrote EXCEPT ![a] = FALSE]
    /\ UNCHANGED <<peer_map, task, inb, outb, prx, achan, ansub>>
    /\ UNCHANGED <<threadVars, shutVars, lifeVars>>

\* the connection breaks: incoming yields Err, the sink returns Err
transport_error(a) ==
    /\ task[a] = "serving"
    /\ link[a] = "up"
    /\ link' = [link EXCEPT ![a] = "err"]
    /\ read' = [read EXCEPT ![a] = FALSE]
    /\ wrote' = [wrote EXCEPT ![a] = FALSE]
    /\ UNCHANGED <<peer_map, task, inb, outb, prx, achan, ansub>>
    /\ UNCHANGED <<threadVars, shutVars, lifeVars>>

inbound_message_completes(a) ==
    /\ task[a] = "serving"
    /\ link[a] = "up"
    /\ inb[a] = "pending"
    /\ read' = [read EXCEPT ![a] = TRUE]
    /\ inb' = [inb EXCEPT ![a] = "done"]
    /\ UNCHANGED <<peer_map, task, link, outb, wrote, prx, achan, ansub>>
    /\ UNCHANGED <<threadVars, shutVars, lifeVars>>

\* incoming yields a message of the peer: the closure of try_for_each
\* returns future::ok(()) and the future goes on with the next message
inbound_message(a) ==
    /\ task[a] = "serving"
    /\ link[a] = "up"
    /\ inb[a] = "pending"
    /\ read' = [read EXCEPT ![a] = TRUE]
    /\ UNCHANGED <<peer_map, task, link, inb, outb, wrote, prx, achan, ansub>>
    /\ UNCHANGED <<threadVars, shutVars, lifeVars>>

\* incoming yields None or Err: try_for_each completes
inbound_ends(a) ==
    /\ task[a] = "serving"
    /\ link[a] \in {"eof", "err"}
    /\ inb[a] = "pending"
    /\ inb' = [inb EXCEPT ![a] = "done"]
    /\ UNCHANGED <<peer_map, task, link, outb, read, wrote, prx, achan, ansub>>
    /\ UNCHANGED <<threadVars, shutVars, lifeVars>>

\* rx.map(Ok).forward(outgoing) moves the next message to the sink
forward_message(a) ==
    /\ task[a] = "serving"
    /\ link[a] = "up"
    /\ outb[a] = "pending"
    /\ prx[a] # <<>>
    /\ prx' = [prx EXCEPT ![a] = Tail(prx[a])]
    /\ wrote' = [wrote EXCEPT ![a] = TRUE]
    /\ UNCHANGED <<peer_map, task, link, inb, outb, read, achan, ansub>>
    /\ UNCHANGED <<threadVars, shutVars, lifeVars>>

\* the sink returns Err for the next message: forward completes. (It
\* cannot complete by the end of rx: the Tx stays in the PeerMap until
\* this very task removes it.)
forward_fails(a) ==
    /\ task[a] = "serving"
    /\ link[a] \in {"eof", "err"}
    /\ outb[a] = "pending"
    /\ prx[a] # <<>>
    /\ outb' = [outb EXCEPT ![a] = "done"]
    /\ UNCHANGED <<peer_map, task, link, inb, read, wrote, prx, achan, ansub>>
    /\ UNCHANGED <<threadVars, shutVars, lifeVars>>

\* future::select returns as soon as one of the two futures is done; the
\* address is removed from the PeerMap and the task ends, dropping the
\* futures, rx and the stream
select_returns(a) ==
    /\ task[a] = "serving"
    /\ inb[a] = "done" \/ outb[a] = "done"
    /\ peer_map' = peer_map \ {a}
    /\ prx' = [prx EXCEPT ![a] = <<>>]
    /\ task' = [task EXCEPT ![a] = "finished"]
    /\ link' = [link EXCEPT ![a] = "none"]
    /\ inb' = [inb EXCEPT ![a] = "pending"]
    /\ outb' = [outb EXCEPT ![a] = "pending"]
    /\ UNCHANGED <<read, wrote, achan, ansub>>
    /\ UNCHANGED <<threadVars, shutVars, lifeVars>>

\* a producer sends Event::new(payload) on the EventTx; the resource the
\* producer has in mind (examples/simple passes one) has no place in the
\* Event of lib.rs
event_tx_send(res, inner) ==
    /\ ansub < MaxEvents
    /\ ansub' = ansub + 1
    /\ achan' = Append(achan, Event_new(inner))
    /\ UNCHANGED <<peer_map, task, link, inb, outb, read, wrote, prx>>
    /\ UNCHANGED <<threadVars, shutVars, lifeVars>>

\* the closure of rx.for_each in build: under the lock of the PeerMap,
\* unbounded_send of the built message on the Tx of every entry; the
\* result of unbounded_send is dropped
broadcast_incoming ==
    /\ achan # <<>>
    /\ prx' = [a \in Addrs |->
                 IF a \in peer_map
                 THEN Append(prx[a], Message_text(build(Head(achan))))
                 ELSE prx[a]]
    /\ achan' = Tail(achan)
    /\ UNCHANGED <<peer_map, task, link, inb, outb, read, wrote, ansub>>
    /\ UNCHANGED <<threadVars, shutVars, lifeVars>>

AsyncNext ==
    \/ \E a \in Addrs : listener_accept(a)
    \/ \E a \in Addrs : accept_async_ok(a)
    \/ \E a \in Addrs : accept_async_err(a)
    \/ \E a \in Addrs : peer_disconnects(a)
    \/ \E a \in Addrs : transport_error(a)
    \/ \E a \in Addrs : inbound_message(a)
    \/ \E a \in Addrs : inbound_ends(a)
    \/ \E a \in Addrs : forward_message(a)
    \/ \E a \in Addrs : forward_fails(a)
    \/ \E a \in Addrs : select_returns(a)
    \/ \E sub \in Submissions : event_tx_send(sub[1], sub[2])
    \/ broadcast_incoming

AsyncSpec == Init /\ [][AsyncNext]_vars

\* ------------------------------------------------ the registry on its own
\* Any sequence of ServerInner::add_client / ServerInner::remove_client
\* calls on one ServerInner, with the bookkeeping of what was added and
\* not removed since.
call_add_client(res, h) ==
    /\ TotalEntries(clients) < MaxEntries
    /\ clients' = add_client(clients, res, h)
    /\ live' = [live EXCEPT ![res] = @ \cup {h}]
    /\ lastOp' = [op |-> "add", h |-> h]
    /\ UNCHANGED <<poisoned, locked, rxAlive, wsAlive, failing>>
    /\ UNCHANGED <<dispVars, chanVars>>
    /\ UNCHANGED extVars

call_remove_client(h) ==
    /\ clients' = remove_client(clients, h)
    /\ live' = [r \in Resources |-> live[r] \ {h}]
    /\ lastOp' = [op |-> IF lastOp.h = h /\ lastOp.op \in {"remove", "remove2"}
                          THEN "remove2" ELSE "remove",
                   h |-> h]
    /\ UNCHANGED <<poisoned, locked, rxAlive, wsAlive, failing>>
    /\ UNCHANGED <<dispVars, chanVars>>
    /\ UNCHANGED extVars

RegistryNext ==
    \/ \E h \in Handles, res \in Resources : call_add_client(res, h)
    \/ \E h \in Handles : call_remove_client(h)

RegistrySpec == Init /\ [][RegistryNext]_vars

\* ------------------------------------------------------------ vocabulary
\* h occurs in some resource's collection
InRegistry(cl, h) == \E r \in DOMAIN cl : h \in Elems(cl[r])

\* number of successful sends of the event numbered id to handle h in log
SendsOf(log, id, h) ==
    Cardinality({i \in 1..Len(log) : log[i].id = id /\ log[i].h = h})

\* number of times h is stored under res, 0 when res is not a key
Registered(cl, res, h) ==
    IF res \in DOMAIN cl THEN Count(cl[res], h) ELSE 0

IsPrefix(s, t) == Len(s) <= Len(t) /\ \A i \in 1..Len(s) : s[i] = t[i]

\* ---------------------------------------------------------------- claims

\* C1 (stated as claimed; fails on remove_client): after any sequence of
\* add_client / remove_client calls, the collection looked up for every
\* resource r holds exactly the handles added under r and not removed since.
C1_LookupIsAddedNotRemoved ==
    \A r \in Resources : Elems(broadcast_targets(clients, r)) = live[r]

\* C2 (stated as claimed; fails on remove_client): once remove_client(h) has
\* returned, no resource's collection holds an entry with h's token.
C2_RemovedHandleIsGone ==
    lastOp.op \in {"remove", "remove2"} => ~InRegistry(clients, lastOp.h)

\* C3 (stated as claimed; fails on remove_client): the disconnect of h leaves
\* every other handle registered exactly as it was, under every resource.
C3_RemoveKeepsOthers ==
    [][\A h \in Handles :
          on_close(h) =>
             \A r \in DOMAIN clients : \A g \in Handles \ {h} :
                Count(clients'[r], g) = Count(clients[r], g)]_vars

\* C4: a send made for an event goes to a handle stored under the event's own
\* resource and carries the event's payload; and when the broadcast of an
\* event returns, every handle has been sent it once per entry it has under
\* the event's resource, so not at all when it is only under another one.
C4_SentOnlyUnderOwnResource ==
    [][/\ (dpc = "send" /\ dpc' = "send" /\ sent' # sent) =>
            LET s == sent'[Len(sent')]
                e == enq[s.id]
            IN  /\ Len(sent') = Len(sent) + 1
                /\ e = cur
                /\ s.msg = e.inner
                /\ Registered(clients, e.res, s.h) > 0
       /\ (dpc = "send" /\ dpc' = "recv") =>
            \A h \in Handles :
               SendsOf(sent, cur.id, h) = Registered(clients, cur.res, h)]_vars

\* C4 witness: an event on /topic was sent to a handle under /topic while
\* another handle sits under /other.
C4_Witness ==
    /\ \E i \in 1..Len(sent) : enq[sent[i].id].res = "/topic"
    /\ DOMAIN clients = Resources
    /\ clients["/other"] # <<>>
    /\ \E i \in 1..Len(disp) : disp[i].res = "/other"

\* C5: the events handed to the registry lookup are a prefix of the events
\* enqueued (none dispatched twice, skipped or reordered), and every send
\* made is a send of the event dispatched last, so that a handle observes
\* the events of one resource in submission order.
C5_DispatchInEnqueueOrder ==
    /\ IsPrefix(disp, enq)
    /\ \A i \in 1..Len(enq) : enq[i].id = i
    /\ \A i \in 1..Len(sent) : sent[i].id = Len(disp)
    /\ dpc = "send" => cur = disp[Len(disp)]

\* C5 witness: two events of the same resource, submitted back-to-back (both
\* were queued together), have been dispatched and the second one is sent to
\* a handle of that resource.
C5_Witness ==
    /\ Len(disp) = 2
    /\ Len(enq) = 2
    /\ disp[1].res = disp[2].res
    /\ \E i \in 1..Len(sent) :
          sent[i].id = 2 /\ Registered(clients, disp[2].res, sent[i].h) > 0

\* C6 (stated as claimed; fails on the unwrap in broadcast): when the
\* broadcast of an event is over, every handle of the event's resource whose
\* send does not fail has been sent the event.
C6_FailingSendSparesOthers ==
    dpc = "panicked" =>
       \A h \in Elems(broadcast_targets(clients, cur.res)) \ failing :
          SendsOf(sent, cur.id, h) > 0

\* C7 (stated as claimed; fails on the unwrap in broadcast): a failing send
\* never ends the dispatch loop and no tx.send of a producer returns Err.
C7_FailingSendNotFatal ==
    /\ dpc # "panicked"
    /\ rxAlive
    /\ lastResult # "Err"

\* C8: a remove_client(h) that directly follows a remove_client(h) leaves
\* the registry as the first call left it.
C8_RemoveIdempotent ==
    [][\A h \in Handles :
          (/\ call_remove_client(h)
           /\ lastOp.op \in {"remove", "remove2"}
           /\ lastOp.h = h)
             => clients' = clients]_vars

\* C8 witness: the second of two remove_client(h) in a row has returned, on a
\* registry that held entries.
C8_Witness ==
    /\ lastOp.op = "remove2"
    /\ \E r \in DOMAIN clients : clients[r] # <<>>

\* C9 (stated as claimed; fails on remove_client): remove_client(h) for a
\* handle that is in no collection leaves every collection unchanged.
C9_RemoveAbsentIsNoOp ==
    [][\A h \in Handles :
          (on_close(h) /\ ~InRegistry(clients, h)) => clients' = clients]_vars

\* C10: while the dispatcher is in the broadcast of an event whose resource
\* is not a key of the registry, nothing has been or is sent for it, the
\* registry is unchanged, nothing panics, and the return to the receive loop
\* is the step the dispatcher can take.
C10_UnknownResourceNoSend ==
    [][(dpc = "send" /\ cur.res \notin DOMAIN clients) =>
          /\ \A h \in Handles : SendsOf(sent, cur.id, h) = 0
          /\ sent' = sent
          /\ clients' = clients
          /\ dpc' \in {"send", "recv"}
          /\ poisoned' = FALSE
          /\ ENABLED broadcast_return]_vars

\* C10 witness: the first event had a resource that never was a key (keys
\* are never deleted); the dispatcher went on and the second event is sent
\* to a registered handle.
C10_Witness ==
    /\ Len(disp) = 2
    /\ disp[1].res \notin DOMAIN clients
    /\ \E h \in Handles : SendsOf(sent, 2, h) > 0

\* C13: add_client(res, h) creates the key res with the collection <<h>>
\* when res is unseen, appends h to the collection of res otherwise, keeping
\* the earlier handles in their order, and leaves every other key as it was.
C13_AddNeverOverwrites ==
    [][\A h \in Handles, res \in Resources :
          call_add_client(res, h) =>
             /\ DOMAIN clients' = (DOMAIN clients) \cup {res}
             /\ res \notin DOMAIN clients => clients'[res] = <<h>>
             /\ res \in DOMAIN clients =>
                   /\ Len(clients'[res]) = Len(clients[res]) + 1
                   /\ SubSeq(clients'[res], 1, Len(clients[res])) = clients[res]
                   /\ clients'[res][Len(clients'[res])] = h
             /\ \A r \in (DOMAIN clients) \ {res} : clients'[r] = clients[r]]_vars

\* C13 witness: the latest call appended a handle behind an earlier one while
\* another resource holds a collection too.
C13_Witness ==
    /\ lastOp.op = "add"
    /\ \E r \in DOMAIN clients :
          /\ Len(clients[r]) >= 2
          /\ clients[r][Len(clients[r])] = lastOp.h
    /\ Cardinality(DOMAIN clients) = 2

\* C18 (stated as in the doc examples; fails on remove_client): add_client on
\* an empty registry leaves exactly one entry in the map, and remove_client
\* of the only handle stored leaves the map with zero entries.
C18_RemoveLastLeavesNoEntry ==
    [][/\ \A h \in Handles, res \in Resources :
             (call_add_client(res, h) /\ DOMAIN clients = {})
                => Cardinality(DOMAIN clients') = 1
       /\ \A h \in Handles :
             (/\ call_remove_client(h)
              /\ TotalEntries(clients) = 1
              /\ InRegistry(clients, h))
                => Cardinality(DOMAIN clients') = 0]_vars

\* C14: the dispatcher takes an event from the channel only when no
\* broadcast is in progress; a broadcast returns only after the for loop has
\* attempted every handle of the event's resource; and every send made is a
\* send of the event dispatched last, so no send of a later event precedes a
\* send of an earlier one.
C14_BroadcastsNeverOverlap ==
    [][/\ (cur' # cur /\ cur' # NoEvent) =>
             (dpc = "recv" /\ ~locked /\ sent = <<>> /\ idx = 0)
       /\ (dpc = "send" /\ dpc' = "recv") =>
             idx = 1 + (IF cur.res \in DOMAIN clients
                        THEN Len(clients[cur.res]) ELSE 0)
       /\ (sent' # sent /\ sent' # <<>>) =>
             /\ sent'[Len(sent')].id = Len(disp)
             /\ disp' = disp
             /\ SubSeq(sent', 1, Len(sent)) = sent]_vars

\* C14 witness: the second event is in its broadcast and both handles of its
\* resource have been sent it.
C14_Witness ==
    /\ Len(disp) = 2
    /\ dpc = "send"
    /\ idx = 3
    /\ Len(sent) = 2
    /\ sent[1].h # sent[2].h

\* C19: add_client(r, h) stores one more entry of h under r whether or not h
\* is already there, and when the broadcast of an event returns each handle
\* has been sent the event once per entry it has under the event's resource:
\* twice when it was added twice, once when it was added once.
C19_DuplicateAddDuplicateSend ==
    [][/\ \A h \in Handles, res \in Resources :
             on_request(h, res) =>
                Registered(clients', res, h) = Registered(clients, res, h) + 1
       /\ (dpc = "send" /\ dpc' = "recv") =>
             \A h \in Handles :
                /\ Registered(clients, cur.res, h) = 2
                      => SendsOf(sent, cur.id, h) = 2
                /\ Registered(clients, cur.res, h) = 1
                      => SendsOf(sent, cur.id, h) = 1]_vars

\* C19 witness: a handle stored twice under the event's resource has been
\* sent the event twice.
C19_Witness ==
    /\ dpc = "send"
    /\ \E h \in Handles :
          /\ Registered(clients, cur.res, h) = 2
          /\ SendsOf(sent, cur.id, h) = 2

\* C11 (stated as claimed; fails on the unwrap in broadcast, see C6 and C7):
\* once every Sender of the channel is dropped, the dispatch thread does not
\* end before it has dispatched, in order, every event that was enqueued.
C11_ClosedChannelIsDrained ==
    (~prodTx /\ ~serverTx /\ dpc \in {"done", "panicked"}) =>
       (chan = <<>> /\ disp = enq)

\* C12 (stated as claimed; fails on Server::tx and on listen): join_threads,
\* called after every producer dropped its Sender, returns.
C12_JoinThreadsReturns ==
    (jpc = "join_ws" /\ ~prodTx) ~> (jpc = "returned")

\* C15 (stated as claimed; fails on on_request): a handle is in the registry
\* only while its connection is open, and every handle a broadcast has sent
\* to is the handle of an open connection.
C15_RegisteredOnlyWhenOpen ==
    /\ \A h \in Handles : InRegistry(clients, h) => conn[h] = "open"
    /\ \A i \in 1..Len(sent) : conn[sent[i].h] = "open"

\* C20 (stated as claimed; the last part fails on remove_client, see C2):
\* while the dispatch thread holds the lock the registry does not change, a
\* broadcast that returns has sent to exactly the entries of the event's
\* resource, in their order, and no send goes to a handle whose on_close has
\* completed.
C20_FanOutUnderOneLock ==
    [][/\ locked => clients' = clients
       /\ (dpc = "send" /\ dpc' = "recv") =>
             [i \in 1..Len(sent) |-> sent[i].h] =
                (IF cur.res \in DOMAIN clients THEN clients[cur.res] ELSE <<>>)
       /\ (dpc = "send" /\ dpc' = "send" /\ sent' # sent) =>
             conn[sent'[Len(sent')].h] # "closed"]_vars

\* C16: in the async variant an address leaves the PeerMap only after its
\* connection has disconnected or failed: as long as the connection is up,
\* every step (reading a message of the peer and forwarding a message to it
\* included) leaves the entry in the PeerMap and both raced futures pending.
C16_RemovedOnlyOnDisconnect ==
    [][\A a \in Addrs :
          /\ (a \in peer_map /\ a \notin peer_map') => link[a] \in {"eof", "err"}
          /\ (a \in peer_map /\ link[a] = "up") =>
                (inb'[a] = "pending" /\ outb'[a] = "pending")]_vars

\* C16 witness: one peer has been removed after its connection ended while
\* another, whose messages have been read and to which a broadcast has been
\* forwarded, is still up and still in the PeerMap.
C16_Witness ==
    \E a, b \in Addrs :
        /\ task[a] = "finished" /\ a \notin peer_map
        /\ task[b] = "serving" /\ link[b] = "up"
        /\ read[b] /\ wrote[b] /\ b \in peer_map

\* C17 (stated as claimed; fails on build): every message put on the Tx of
\* a peer is the payload of an event submitted for the resource the peer
\* requested.
C17_OnlyPeersOfTheResource ==
    \A a \in Addrs : \A i \in 1..Len(prx[a]) :
        \E sub \in Submissions :
            /\ Message_text(sub[2]) = prx[a][i]
            /\ sub[1] = RequestedPath(a)
====
